---------------------------- MODULE Spec2Model ----------------------------
(***************************************************************************)
(* Model of the write path of the log writer in src/writer.go:             *)
(*   WriteMessage -> encode -> compress -> buildRequest(-> signature)      *)
(*                -> fire -> validateResponse                              *)
(* Strings and byte slices are sequences of byte values (0..255); a Go     *)
(* map is a function together with the order in which one `range` loop     *)
(* visits its keys, which Go leaves unspecified.                            *)
(***************************************************************************)
EXTENDS Integers, Sequences, FiniteSets, Bags, TLC

VARIABLES
    sgSecret,   \* signature: the secret argument
    sgReq,      \* signature: the req argument ([Method, URL, Header])
    sgPc,       \* signature: per call, "ready" or "returned"
    sgOut       \* signature: what each of two calls on sgReq returned

signVars == <<sgSecret, sgReq, sgPc, sgOut>>

VARIABLES
    cpData,     \* compress / copyIncompressible: the input bytes
    cpPc,       \* "ready", "compressed" or "copied"
    cpDn,       \* len(dst) of the call made
    cpRet       \* what the call returned

copyVars == <<cpData, cpPc, cpDn, cpRet>>

VARIABLES
    enW,        \* encode: the writer ([topic, source])
    enMsgs,     \* encode: the messages argument
    enPc,       \* "ready" or "returned"
    enRet       \* what the call returned

encVars == <<enW, enMsgs, enPc, enRet>>

VARIABLES
    vaResp,     \* validateResponse: the response argument
    vaPc,       \* "ready" or "returned"
    vaRet       \* what the call returned

valVars == <<vaResp, vaPc, vaRet>>

VARIABLES
    cfg,        \* the arguments NewWriter was called with
    w,          \* the writer NewWriter returned
    slices,     \* the []string objects: address -> elements
    pc,         \* per call: the stage it is about to run
    msgs,       \* per call: the messages argument
    wmRaw,      \* per call: encode's result
    wmData,     \* per call: compress's result
    wmHeader,   \* per call: req.Header, name -> address of the value slice
    wmResp,     \* per call: the response Do returned
    ret,        \* per call: the error WriteMessage returns
    ran,        \* per call: the stages run so far, in order
    env,        \* per call: what libraries, clock and server answered
    nDo,        \* per call: how often w.client.Do was called
    wmBody,     \* per call: what happened to resp.Body ("read", "close")
    sent        \* per call: the request as handed to the transport

pipeVars ==
    <<cfg, w, slices, pc, msgs, wmRaw, wmData, wmHeader, wmResp, ret, ran, env, nDo,
      wmBody, sent>>

vars == <<signVars, copyVars, encVars, valVars, pipeVars>>

None == "none"

(***************************************************************************)
(* Strings (package strings, fmt, sort)                                    *)
(***************************************************************************)

\* Permutations of a finite set, as sequences: the orders a `range` over a
\* map with that key set may take.
Perms(S) ==
    {p \in [1..Cardinality(S) -> S] : \A i, j \in 1..Cardinality(S) : i # j => p[i] # p[j]}

\* strings.ToLower, on ASCII
ToLower(s) == [i \in 1..Len(s) |-> IF s[i] \in 65..90 THEN s[i] + 32 ELSE s[i]]

\* strings.HasPrefix
HasPrefix(s, p) == Len(s) >= Len(p) /\ SubSeq(s, 1, Len(p)) = p

\* unicode.IsSpace on the ASCII range
IsSpace(c) == c \in {9, 10, 11, 12, 13, 32}

\* strings.TrimSpace
RECURSIVE TrimLeft(_)
TrimLeft(s) == IF s # <<>> /\ IsSpace(s[1]) THEN TrimLeft(Tail(s)) ELSE s

RECURSIVE TrimRight(_)
TrimRight(s) ==
    IF s # <<>> /\ IsSpace(s[Len(s)]) THEN TrimRight(SubSeq(s, 1, Len(s) - 1)) ELSE s

TrimSpace(s) == TrimRight(TrimLeft(s))

\* strings.Join
RECURSIVE Join(_, _)
Join(a, sep) ==
    IF a = <<>> THEN <<>>
    ELSE IF Len(a) = 1 THEN a[1]
    ELSE a[1] \o sep \o Join(Tail(a), sep)

\* Go's < on strings: bytewise lexicographic
RECURSIVE StrLess(_, _)
StrLess(a, b) ==
    IF b = <<>> THEN FALSE
    ELSE IF a = <<>> THEN TRUE
    ELSE IF a[1] # b[1] THEN a[1] < b[1]
    ELSE StrLess(Tail(a), Tail(b))

\* sort.Strings: the ascending rearrangement of a
RECURSIVE InsertSorted(_, _)
InsertSorted(x, a) ==
    IF a = <<>> THEN <<x>>
    ELSE IF StrLess(x, a[1]) THEN <<x>> \o a
    ELSE <<a[1]>> \o InsertSorted(x, Tail(a))

RECURSIVE SortStrings(_)
SortStrings(a) == IF a = <<>> THEN <<>> ELSE InsertSorted(a[1], SortStrings(Tail(a)))

\* strconv.Itoa for n >= 0
RECURSIVE Itoa(_)
Itoa(n) == IF n < 10 THEN <<48 + n>> ELSE Itoa(n \div 10) \o <<48 + (n % 10)>>

\* "0123456789ABCDEF"
UpperHex == <<48, 49, 50, 51, 52, 53, 54, 55, 56, 57, 65, 66, 67, 68, 69, 70>>

\* fmt.Sprintf("%X", bytes): two upper-case hex digits per byte
RECURSIVE HexUpper(_)
HexUpper(b) ==
    IF b = <<>> THEN <<>>
    ELSE <<UpperHex[(b[1] \div 16) + 1], UpperHex[(b[1] % 16) + 1]>> \o HexUpper(Tail(b))

(***************************************************************************)
(* net/http, net/url, encoding/base64, crypto: the parts signature uses    *)
(***************************************************************************)

IsAlpha(c) == c \in 65..90 \/ c \in 97..122
IsDigit(c) == c \in 48..57

\* textproto: bytes allowed in a header field name ("!#$%&'*+-.^_`|~", digits, letters)
validHeaderFieldByte(c) ==
    IsAlpha(c) \/ IsDigit(c) \/ c \in {33, 35, 36, 37, 38, 39, 42, 43, 45, 46, 94, 95, 96, 124, 126}

\* textproto.CanonicalMIMEHeaderKey: first letter and every letter after '-'
\* upper-cased, the rest lower-cased; a name with an invalid byte is returned as is
CanonicalMIMEHeaderKey(s) ==
    IF \E i \in 1..Len(s) : ~validHeaderFieldByte(s[i]) THEN s
    ELSE [i \in 1..Len(s) |->
            IF i = 1 \/ s[i - 1] = 45
            THEN (IF s[i] \in 97..122 THEN s[i] - 32 ELSE s[i])
            ELSE (IF s[i] \in 65..90 THEN s[i] + 32 ELSE s[i])]

\* http.Header.Get: the first value stored under the canonical form of key, or ""
HeaderGet(h, key) ==
    LET k == CanonicalMIMEHeaderKey(key)
    IN  IF k \in DOMAIN h /\ h[k] # <<>> THEN h[k][1] ELSE <<>>

\* url.URL.EscapedPath for a URL without RawPath: bytes other than the
\* unreserved ones and "$&+,/:;=@" become %XX
shouldEscape(c) ==
    ~(IsAlpha(c) \/ IsDigit(c) \/ c \in {45, 95, 46, 126, 36, 38, 43, 44, 47, 58, 59, 61, 64})

RECURSIVE escape(_)
escape(p) ==
    IF p = <<>> THEN <<>>
    ELSE (IF shouldEscape(p[1]) THEN <<37>> \o HexUpper(<<p[1]>>) ELSE <<p[1]>>)
         \o escape(Tail(p))

\* (a path with nothing to escape is returned as it is)
EscapedPath(p) == IF \A i \in 1..Len(p) : ~shouldEscape(p[i]) THEN p ELSE escape(p)

\* "ABC...XYZabc...xyz0123456789+/"
Base64Alphabet ==
    <<65, 66, 67, 68, 69, 70, 71, 72, 73, 74, 75, 76, 77, 78, 79, 80, 81, 82, 83, 84,
      85, 86, 87, 88, 89, 90, 97, 98, 99, 100, 101, 102, 103, 104, 105, 106, 107, 108,
      109, 110, 111, 112, 113, 114, 115, 116, 117, 118, 119, 120, 121, 122, 48, 49, 50,
      51, 52, 53, 54, 55, 56, 57, 43, 47>>

\* base64.StdEncoding.EncodeToString
RECURSIVE Base64(_)
Base64(b) ==
    IF b = <<>> THEN <<>>
    ELSE IF Len(b) = 1 THEN
        <<Base64Alphabet[(b[1] \div 4) + 1], Base64Alphabet[((b[1] % 4) * 16) + 1], 61, 61>>
    ELSE IF Len(b) = 2 THEN
        <<Base64Alphabet[(b[1] \div 4) + 1],
          Base64Alphabet[((b[1] % 4) * 16) + (b[2] \div 16) + 1],
          Base64Alphabet[((b[2] % 16) * 4) + 1], 61>>
    ELSE
        <<Base64Alphabet[(b[1] \div 4) + 1],
          Base64Alphabet[((b[1] % 4) * 16) + (b[2] \div 16) + 1],
          Base64Alphabet[((b[2] % 16) * 4) + (b[3] \div 64) + 1],
          Base64Alphabet[(b[3] % 64) + 1]>> \o Base64(SubSeq(b, 4, Len(b)))

\* A position-weighted checksum of a byte string, the basis of the digest
\* stand-ins below: the sum over i of (s[i] + 1) * (i % 251 + 1), taken as
\* the size of the bag that holds position i that many times.
WSum(s) == BagCardinality([i \in 1..Len(s) |-> (s[i] + 1) * ((i % 251) + 1)]) % 65521

\* hmac.New(sha1.New, secret) fed signStr, then Sum(nil): a 20-byte keyed
\* digest.  SHA-1 itself is a library primitive; it is represented by a keyed
\* checksum that, like it, is a function of the key and of every byte of the
\* message in its position.
DigestBytes(n, k, m, len) == [i \in 1..n |-> (k * (i + 2) + m * i + len) % 256]

hmacSha1(key, msg) == DigestBytes(20, WSum(key), WSum(msg), Len(msg))

(***************************************************************************)
(* signature (src/writer.go:171-218)                                       *)
(***************************************************************************)

XLogPrefix == <<88, 45, 76, 111, 103, 45>>                          \* "X-Log-"
XAcsPrefix == <<88, 45, 65, 99, 115, 45>>                           \* "X-Acs-"
sContentMD5 == <<67, 111, 110, 116, 101, 110, 116, 45, 77, 68, 53>> \* "Content-MD5"
sContentType == <<67, 111, 110, 116, 101, 110, 116, 45, 84, 121, 112, 101>> \* "Content-Type"
sDate == <<68, 97, 116, 101>>                                       \* "Date"

\* One pass of `for k, v := range req.Header` visiting the keys in `order`:
\* the sections appended, in that order.
RECURSIVE RangeSections(_, _)
RangeSections(h, order) ==
    IF order = <<>> THEN <<>>
    ELSE LET k == order[1]
             v == h[k]
         IN  (IF Len(v) > 0 /\ (HasPrefix(k, XLogPrefix) \/ HasPrefix(k, XAcsPrefix))
              THEN <<ToLower(k) \o <<58>> \o TrimSpace(Join(v, <<44>>))>>
              ELSE <<>>) \o RangeSections(h, Tail(order))

\* signature without the sort of line 188: the sections stay in the order of
\* the range loop.
UnsortedSLSHeaders(h, order) == RangeSections(h, order)

\* The sections as appended to arr: sorted (sort.Strings, line 188).
CanonicalizedSLSHeaders(h, order) == SortStrings(RangeSections(h, order))

\* Lines 208-217: the signing input joined and digested.  arr and signStr are
\* locals of the function, kept in the result so that properties can speak of
\* the signing input.  hash.Hash's Write never returns an error, so the error
\* return of line 213 is not taken.
Digest(secret, arr, signStr) ==
    [arr |-> arr, signStr |-> signStr, digest |-> Base64(hmacSha1(secret, signStr))]

SignArr(secret, arr) == Digest(secret, arr, Join(arr, <<10>>))

\* signature(secret, req), with the order in which the range loop visits
\* req.Header.
signature(secret, req, order) ==
    SignArr(secret,
            <<req.Method,
              HeaderGet(req.Header, sContentMD5),
              HeaderGet(req.Header, sContentType),
              HeaderGet(req.Header, sDate)>>
            \o CanonicalizedSLSHeaders(req.Header, order)
            \o <<EscapedPath(req.URL.Path)>>)

(***************************************************************************)
(* SpecSign: signature as a function of its arguments.  The request is     *)
(* drawn from a bounded set of http.Request values; signature is called    *)
(* twice on it, each call ranging over the header map in an order of its   *)
(* own.                                                                    *)
(***************************************************************************)

MaxHeaders == 3

sPOST == <<80, 79, 83, 84>>                                         \* "POST"
sContentMd5 == <<67, 111, 110, 116, 101, 110, 116, 45, 77, 100, 53>> \* "Content-Md5"
sHost == <<72, 111, 115, 116>>                                      \* "Host"

\* Header names a request may carry: two vendor headers in canonical form,
\* one vendor header stored under a lower-case key (http.Header is a plain
\* map; only Set/Add/Get canonicalise), and headers outside the prefixes.
SignKeys ==
    { <<88, 45, 76, 111, 103, 45, 66>>,          \* "X-Log-B"
      <<88, 45, 65, 99, 115, 45, 65>>,           \* "X-Acs-A"
      <<120, 45, 108, 111, 103, 45, 99>>,        \* "x-log-c"
      sDate, sContentMd5, sHost }

\* Header values: one value, two values with outer blanks, no value.
SignValues ==
    { << <<49>> >>,                              \* {"1"}
      << <<32, 50>>, <<51, 32>> >>,              \* {" 2", "3 "}
      << >> }                                    \* {}

SignHeaders ==
    UNION {[S -> SignValues] : S \in {T \in SUBSET SignKeys : Cardinality(T) <= MaxHeaders}}

SignURLs ==
    { [Path |-> <<47, 108, 47, 97>>, RawQuery |-> <<>>],             \* /l/a
      [Path |-> <<47, 108, 47, 97, 32, 98>>, RawQuery |-> <<113>>] } \* "/l/a b" ?q

SignSecrets == { <<51, 50, 49>> }                                    \* "321"

SignRequests ==
    {[Method |-> sPOST, URL |-> u, Header |-> h] : u \in SignURLs, h \in SignHeaders}

SignParked == sgSecret = None /\ sgReq = None /\ sgPc = None /\ sgOut = None

SignInit ==
    /\ sgSecret \in SignSecrets
    /\ sgReq \in SignRequests
    /\ sgPc = [i \in 1..2 |-> "ready"]
    /\ sgOut = [i \in 1..2 |-> None]

\* The i-th call signature(sgSecret, sgReq).
signatureCall(i) ==
    /\ sgPc[i] = "ready"
    /\ sgPc' = [sgPc EXCEPT ![i] = "returned"]
    /\ \E order \in Perms(DOMAIN sgReq.Header) :
          sgOut' = [sgOut EXCEPT ![i] = signature(sgSecret, sgReq, order)]
    /\ UNCHANGED <<sgSecret, sgReq>>
    /\ UNCHANGED <<copyVars, encVars, valVars, pipeVars>>

SignNext == \E i \in 1..2 : signatureCall(i)


(***************************************************************************)
(* compress and copyIncompressible (src/writer.go:105-118, 220-245)        *)
(* A Go slice dst of length dn is a sequence of length dn; Go's dst[di] is  *)
(* element di + 1.                                                          *)
(***************************************************************************)

\* An output buffer sized for the descriptor byte and the literals only
TightBlockBound(n) == n + 1

\* lz4.CompressBlockBound(n), the size compress gives its output buffer
CompressBlockBound(n) == n + n \div 255 + 16

\* make([]byte, n)
MakeBytes(n) == [i \in 1..n |-> 0]

\* copy(dst[di:], src): min(len(dst) - di, len(src)) bytes are copied
CopyAt(dst, di, src) ==
    LET m == IF Len(dst) - di < Len(src) THEN Len(dst) - di ELSE Len(src)
    IN  [n |-> m,
         dst |-> [i \in 1..Len(dst) |-> IF i > di /\ i <= di + m THEN src[i - di] ELSE dst[i]]]

\* The loop of lines 232-237 with `lLen > 0xFF` for its condition
RECURSIVE lenLoopOffByOne(_, _, _)
lenLoopOffByOne(dst, di, lLen) ==
    IF lLen > 255
    THEN LET d == [dst EXCEPT ![di + 1] = 255]
         IN  IF di + 1 = Len(dst)
             THEN [ret |-> TRUE, dst |-> d, di |-> di + 1, lLen |-> lLen]
             ELSE lenLoopOffByOne(d, di + 1, lLen - 255)
    ELSE [ret |-> FALSE, dst |-> dst, di |-> di, lLen |-> lLen]

\* The loop of lines 232-237: one 0xFF per 255 of the remaining length; ret
\* says that the loop returned from the function because dst was full.
RECURSIVE lenLoop(_, _, _)
lenLoop(dst, di, lLen) ==
    IF lLen >= 255
    THEN LET d == [dst EXCEPT ![di + 1] = 255]
         IN  IF di + 1 = Len(dst)
             THEN [ret |-> TRUE, dst |-> d, di |-> di + 1, lLen |-> lLen]
             ELSE lenLoop(d, di + 1, lLen - 255)
    ELSE [ret |-> FALSE, dst |-> dst, di |-> di, lLen |-> lLen]

\* Lines 240-244: step past the last length byte, then the literals, unless
\* they do not fit.
copyLiterals(src, dst, di) ==
    IF di + 1 + Len(src) > Len(dst)
    THEN [n |-> di + 1, dst |-> dst, exhausted |-> TRUE]
    ELSE LET c == CopyAt(dst, di + 1, src)
         IN  [n |-> di + 1 + c.n, dst |-> c.dst, exhausted |-> FALSE]

\* copyIncompressible(src, dst) for len(dst) >= 1 (dst[0] is written
\* unconditionally).  The error result is always nil and is left out;
\* exhausted records that one of the three `return di, nil` guards was taken.
copyIncompressible(src, dst) ==
    IF Len(src) < 15
    THEN copyLiterals(src, [dst EXCEPT ![1] = (Len(src) * 16) % 256], 0)
    ELSE LET d0 == [dst EXCEPT ![1] = 240]
         IN  IF 1 = Len(dst)
             THEN [n |-> 1, dst |-> d0, exhausted |-> TRUE]
             ELSE LET r == lenLoop(d0, 1, Len(src) - 15)
                  IN  IF r.ret
                      THEN [n |-> r.di, dst |-> r.dst, exhausted |-> TRUE]
                      ELSE copyLiterals(src, [r.dst EXCEPT ![r.di + 1] = r.lLen % 256], r.di)

\* What lz4.CompressBlock(data, out, hashTable) may do: fail; report n = 0
\* (incompressible), having already written into out; or report
\* n bytes written, 1 <= n <= len(out), of which the largest n is taken.  The
\* bytes it writes are its own business and are represented by a fixed filler.
Lz4Filler(n) == [i \in 1..n |-> (i * 13 + 5) % 256]

Lz4Outcomes(data, dn) ==
    {[err |-> TRUE, n |-> 0, wrote |-> <<>>]}
    \cup {[err |-> FALSE, n |-> 0, wrote |-> Lz4Filler(3)]}
    \cup {[err |-> FALSE, n |-> dn, wrote |-> Lz4Filler(dn)]}

\* compress(data) when lz4.CompressBlock behaves as lz.  exhausted and
\* fallback are observations of the run, not part of the Go result.
compress(data, lz) ==
    LET out == CopyAt(MakeBytes(CompressBlockBound(Len(data))), 0, lz.wrote).dst
    IN  IF lz.err
        THEN [out |-> <<>>, err |-> "CompressError", fallback |-> FALSE, exhausted |-> FALSE]
        ELSE IF lz.n = 0
        THEN LET r == copyIncompressible(data, out)
             IN  [out |-> SubSeq(r.dst, 1, r.n), err |-> None,
                  fallback |-> TRUE, exhausted |-> r.exhausted]
        ELSE [out |-> SubSeq(out, 1, lz.n), err |-> None,
              fallback |-> FALSE, exhausted |-> FALSE]

(***************************************************************************)
(* SpecCopy: compress and copyIncompressible as functions of their         *)
(* arguments.                                                              *)
(***************************************************************************)

MaxDataLen == 530

\* Input bytes: a run that passes through every byte value, 0xF0 and 0xFF
\* included.
DataOf(len, seed) == [i \in 1..len |-> (seed + 37 * i) % 256]

CopyInputs == {DataOf(len, seed) : len \in 0..MaxDataLen, seed \in {0, 218}}

\* Destination sizes for a direct call: the size compress uses, and sizes
\* too small for the block.
DstSizes(len) == {CompressBlockBound(len), len + 1, 2, 1}

CopyParked == cpData = None /\ cpPc = None /\ cpDn = None /\ cpRet = None

CopyInit ==
    /\ cpData \in CopyInputs
    /\ cpPc = "ready"
    /\ cpDn = 0
    /\ cpRet = None

\* compress(cpData)
compressCall ==
    /\ cpPc = "ready"
    /\ \E lz \in Lz4Outcomes(cpData, CompressBlockBound(Len(cpData))) :
          cpRet' = compress(cpData, lz)
    /\ cpDn' = CompressBlockBound(Len(cpData))
    /\ cpPc' = "compressed"
    /\ UNCHANGED cpData
    /\ UNCHANGED <<signVars, encVars, valVars, pipeVars>>

\* copyIncompressible(cpData, dst) on a zeroed dst of one of the sizes
copyIncompressibleCall ==
    /\ cpPc = "ready"
    /\ \E dn \in DstSizes(Len(cpData)) :
          /\ cpRet' = copyIncompressible(cpData, MakeBytes(dn))
          /\ cpDn' = dn
    /\ cpPc' = "copied"
    /\ UNCHANGED cpData
    /\ UNCHANGED <<signVars, encVars, valVars, pipeVars>>

CopyNext == compressCall \/ copyIncompressibleCall

(***************************************************************************)
(* encode (src/writer.go:82-103)                                           *)
(* A time.Time is [sec, nsec]: whole seconds since the Unix epoch and the  *)
(* nanoseconds within the second.  sec is an int64; it is held as four     *)
(* 16-bit words, most significant first, in two's complement, so that the  *)
(* conversion to uint32 keeps its width.  A uint32 is two such words.      *)
(***************************************************************************)

\* time.Time.Unix(): the int64 seconds; the nanoseconds are dropped
Unix(t) == t.sec

\* uint32(x) for an int64 x: the low 32 bits
uint32(x) == <<x[3], x[4]>>

\* The contents appended by `for k, v := range message.Contents` visiting the
\* keys in `order` (lines 90-96)
RECURSIVE RangeContents(_, _)
RangeContents(contents, order) ==
    IF order = <<>> THEN <<>>
    ELSE <<[Key |-> order[1], Value |-> contents[order[1]]]>>
         \o RangeContents(contents, Tail(order))

\* The api.LogGroup built by lines 83-101: one api.Log per message, in order
LogGroupOf(topic, source, messages, orders) ==
    [Topic |-> topic,
     Source |-> source,
     Logs |-> [i \in 1..Len(messages) |->
                 [Time |-> uint32(Unix(messages[i].Time)),
                  Contents |-> RangeContents(messages[i].Contents, orders[i])]]]

\* Base-128 varint of 0 <= n < 2^31
RECURSIVE Varint(_)
Varint(n) == IF n < 128 THEN <<n>> ELSE <<128 + (n % 128)>> \o Varint(n \div 128)

\* Base-128 varint of a uint32 held as two 16-bit words: its five 7-bit
\* groups, least significant first, without the leading zero groups
RECURSIVE VarintOfGroups(_)
VarintOfGroups(g) ==
    IF Len(g) = 1 \/ \A i \in 2..Len(g) : g[i] = 0 THEN <<g[1]>>
    ELSE <<128 + g[1]>> \o VarintOfGroups(Tail(g))

VarintU32(x) ==
    VarintOfGroups(<<x[2] % 128,
                     (x[2] \div 128) % 128,
                     (x[2] \div 16384) + (x[1] % 32) * 4,
                     (x[1] \div 32) % 128,
                     x[1] \div 4096>>)

\* A length-delimited field: key byte (field number, wire type 2), length, bytes
LenField(field, bytes) == <<field * 8 + 2>> \o Varint(Len(bytes)) \o bytes

RECURSIVE ConcatAll(_)
ConcatAll(a) == IF a = <<>> THEN <<>> ELSE a[1] \o ConcatAll(Tail(a))

\* The wire form of the schema: content = {1: key, 2: value};
\* log = {1: time (varint), 2: repeated content};
\* group = {1: topic, 2: source, 3: repeated log}
MarshalContent(c) == LenField(1, c.Key) \o LenField(2, c.Value)

MarshalLog(l) ==
    <<8>> \o VarintU32(l.Time)
    \o ConcatAll([i \in 1..Len(l.Contents) |-> LenField(2, MarshalContent(l.Contents[i]))])

Marshal(group) ==
    LenField(1, group.Topic) \o LenField(2, group.Source)
    \o ConcatAll([i \in 1..Len(group.Logs) |-> LenField(3, MarshalLog(group.Logs[i]))])

\* The orders the range loops of one encode call may take: one per message
ContentOrders(messages) ==
    {o \in [1..Len(messages) -> UNION {Perms(DOMAIN messages[i].Contents) : i \in 1..Len(messages)}] :
        \A i \in 1..Len(messages) : o[i] \in Perms(DOMAIN messages[i].Contents)}

\* w.encode(messages...): the group handed to proto.Marshal and what Marshal
\* returns; marshalErr is Marshal's error result.  group is a local of the
\* function, kept so that properties can speak of it.
encode(wr, messages, orders, marshalErr) ==
    LET group == LogGroupOf(wr.topic, wr.source, messages, orders)
    IN  IF marshalErr
        THEN [group |-> group, raw |-> <<>>, err |-> "EncodeError"]
        ELSE [group |-> group, raw |-> Marshal(group), err |-> None]

(***************************************************************************)
(* SpecEncode: encode as a function of the writer and the messages.        *)
(***************************************************************************)

MaxMessages == 2

\* Times: 2020-01-01T00:00:00Z (the tests' time), the same plus 999999999 ns,
\* the last second a uint32 holds, 2^32 + 5 s (year 2106), and the zero
\* time.Time (year 1, before the epoch).
EncodeTimes ==
    { [sec |-> <<0, 0, 24075, 57600>>, nsec |-> 0],
      [sec |-> <<0, 0, 24075, 57600>>, nsec |-> 999999999],
      [sec |-> <<0, 0, 65535, 65535>>, nsec |-> 0],
      [sec |-> <<0, 1, 0, 5>>, nsec |-> 0],
      [sec |-> <<65535, 65521, 34926, 2304>>, nsec |-> 0] }

sKey == <<107, 101, 121>>                    \* "key"
sValue == <<118, 97, 108, 117, 101>>         \* "value"
sK == <<107>>                                \* "k"

\* Contents: no field, one field, two fields (one of them empty)
EncodeContents ==
    { << >>,
      [k \in {sKey} |-> sValue],
      [k \in {sKey, sK} |-> IF k = sKey THEN sValue ELSE <<>>] }

EncodeMessages == {[Time |-> t, Contents |-> c] : t \in EncodeTimes, c \in EncodeContents}

EncodeBatches == UNION {[1..n -> EncodeMessages] : n \in 1..MaxMessages}

EncodeWriters ==
    { [topic |-> <<116>>, source |-> <<115, 114, 99>>],    \* "t", "src"
      [topic |-> <<>>, source |-> <<>>] }

EncodeParked == enW = None /\ enMsgs = None /\ enPc = None /\ enRet = None

EncodeInit ==
    /\ enW \in EncodeWriters
    /\ enMsgs \in EncodeBatches
    /\ enPc = "ready"
    /\ enRet = None

\* w.encode(enMsgs...)
encodeCall ==
    /\ enPc = "ready"
    /\ \E orders \in ContentOrders(enMsgs), marshalErr \in BOOLEAN :
          enRet' = encode(enW, enMsgs, orders, marshalErr)
    /\ enPc' = "returned"
    /\ UNCHANGED <<enW, enMsgs>>
    /\ UNCHANGED <<signVars, copyVars, valVars, pipeVars>>

EncodeNext == encodeCall

(***************************************************************************)
(* validateResponse (src/writer.go:157-169)                                *)
(* A response is [StatusCode, Header, Body].  A body is what a JSON        *)
(* decoder can tell apart: nothing at all, text that is not JSON, or one   *)
(* JSON value (null, an array, or an object whose members are strings or   *)
(* numbers).                                                               *)
(***************************************************************************)

sXLogRequestid ==
    <<88, 45, 76, 111, 103, 45, 82, 101, 113, 117, 101, 115, 116, 105, 100>> \* "X-Log-Requestid"

JString(s) == [t |-> "string", s |-> s]
JNumber == [t |-> "number", s |-> <<>>]

NoError == [HTTPCode |-> 0, Code |-> <<>>, Message |-> <<>>, RequestID |-> <<>>]

\* An error value returned to the caller: its kind and, for a vendor error,
\* the *AliyunError
Result(kind, aErr) == [kind |-> kind, aErr |-> aErr]

Success == Result("Success", NoError)

\* json.NewDecoder(body).Decode(&aErr): the first JSON value of the body is
\* decoded into the AliyunError, whose members errorCode and errorMessage
\* go to Code and Message.  An empty body (io.EOF), text that is not JSON, an
\* array, or a member of the wrong type is an error; null and unknown or
\* absent members leave the fields as they are.
jsonDecode(body, aErr) ==
    IF body.kind \in {"empty", "text", "array"} THEN [err |-> TRUE, aErr |-> aErr]
    ELSE IF body.kind = "null" THEN [err |-> FALSE, aErr |-> aErr]
    ELSE LET m == body.members
             bad(f) == f \in DOMAIN m /\ m[f].t # "string"
             get(f, old) == IF f \in DOMAIN m /\ m[f].t = "string" THEN m[f].s ELSE old
         IN  [err |-> bad("errorCode") \/ bad("errorMessage"),
              aErr |-> [aErr EXCEPT !.Code = get("errorCode", aErr.Code),
                                    !.Message = get("errorMessage", aErr.Message)]]

\* http.StatusBadRequest
StatusBadRequest == 400

\* validateResponse with `<=` for the comparison of line 158 and without the
\* request id of line 163
validateResponseInclusive(resp) ==
    IF resp.StatusCode <= StatusBadRequest
    THEN [ret |-> Success, read |-> FALSE]
    ELSE LET aErr == [HTTPCode |-> resp.StatusCode, RequestID |-> <<>>,
                      Code |-> <<>>, Message |-> <<>>]
             d == jsonDecode(resp.Body, aErr)
         IN  IF d.err
             THEN [ret |-> Result("ResponseDecodeError", NoError), read |-> TRUE]
             ELSE [ret |-> Result("VendorError", d.aErr), read |-> TRUE]

\* w.validateResponse(resp).  read says whether resp.Body was read.
\* StatusCode is what net/http parsed from three digits, so int32(StatusCode)
\* keeps its value.
validateResponse(resp) ==
    IF resp.StatusCode < StatusBadRequest
    THEN [ret |-> Success, read |-> FALSE]
    ELSE LET aErr == [HTTPCode |-> resp.StatusCode,
                      RequestID |-> HeaderGet(resp.Header, sXLogRequestid),
                      Code |-> <<>>,
                      Message |-> <<>>]
             d == jsonDecode(resp.Body, aErr)
         IN  IF d.err
             THEN [ret |-> Result("ResponseDecodeError", NoError), read |-> TRUE]
             ELSE [ret |-> Result("VendorError", d.aErr), read |-> TRUE]

(***************************************************************************)
(* SpecValidate: validateResponse as a function of the response.           *)
(***************************************************************************)

sParameterInvalid ==
    <<80, 97, 114, 97, 109, 101, 116, 101, 114, 73, 110, 118, 97, 108, 105, 100>> \* "ParameterInvalid"
sPairInvalid == <<112, 97, 105, 114, 32, 105, 115, 32, 105, 110, 118, 97, 108, 105, 100>> \* "pair is invalid"
s123 == <<49, 50, 51>>                                                \* "123"

JObject(members) == [kind |-> "object", members |-> members]
JOther(kind) == [kind |-> kind, members |-> << >>]

ValidateBodies ==
    { JOther("empty"), JOther("text"), JOther("null"), JOther("array"),
      JObject(<< >>),
      JObject([f \in {"errorCode", "errorMessage"} |->
                 IF f = "errorCode" THEN JString(sParameterInvalid) ELSE JString(sPairInvalid)]),
      JObject([f \in {"errorCode"} |-> JString(sParameterInvalid)]),
      JObject([f \in {"errorCode", "errorMessage"} |->
                 IF f = "errorCode" THEN JNumber ELSE JString(sPairInvalid)]),
      JObject([f \in {"errorCode", "errorMessage", "HTTPCode", "RequestID"} |->
                 IF f = "errorCode" THEN JString(sParameterInvalid)
                 ELSE IF f = "errorMessage" THEN JString(<<>>)
                 ELSE IF f = "HTTPCode" THEN JNumber ELSE JString(<<120>>)]) }

ValidateStatuses == {200, 204, 302, 399, 400, 401, 500}

ValidateHeaders == { << >>, [k \in {sXLogRequestid} |-> << s123 >>] }

ValidateResponses ==
    {[StatusCode |-> st, Header |-> h, Body |-> b] :
        st \in ValidateStatuses, h \in ValidateHeaders, b \in ValidateBodies}

ValidateParked == vaResp = None /\ vaPc = None /\ vaRet = None

ValidateInit ==
    /\ vaResp \in ValidateResponses
    /\ vaPc = "ready"
    /\ vaRet = None

\* w.validateResponse(vaResp)
validateResponseCall ==
    /\ vaPc = "ready"
    /\ vaRet' = validateResponse(vaResp)
    /\ vaPc' = "returned"
    /\ UNCHANGED vaResp
    /\ UNCHANGED <<signVars, copyVars, encVars, pipeVars>>

ValidateNext == validateResponseCall

(***************************************************************************)
(* The writer and its request pipeline (src/writer.go:24-155)              *)
(* A []string that can be reached from more than one place is an object    *)
(* of its own: `slices` maps its address <<owner, name>> to its elements.   *)
(* Owner 0 holds the package-level header values (lines 24-29) and the      *)
(* writer's hHost; owner c > 0 holds what call c allocates.  A request's    *)
(* Header maps a header name to the address of its value slice.             *)
(***************************************************************************)

sContentLength == <<67, 111, 110, 116, 101, 110, 116, 45, 76, 101, 110, 103, 116, 104>> \* "Content-Length"
sXLogApiversion ==
    <<88, 45, 76, 111, 103, 45, 65, 112, 105, 118, 101, 114, 115, 105, 111, 110>> \* "X-Log-Apiversion"
sXLogBodyrawsize ==
    <<88, 45, 76, 111, 103, 45, 66, 111, 100, 121, 114, 97, 119, 115, 105, 122, 101>> \* "X-Log-Bodyrawsize"
sXLogCompresstype ==
    <<88, 45, 76, 111, 103, 45, 67, 111, 109, 112, 114, 101, 115, 115, 116, 121, 112, 101>> \* "X-Log-Compresstype"
sXLogSignaturemethod ==
    <<88, 45, 76, 111, 103, 45, 83, 105, 103, 110, 97, 116, 117, 114, 101, 109, 101, 116,
      104, 111, 100>>                                                 \* "X-Log-Signaturemethod"
sAuthorization == <<65, 117, 116, 104, 111, 114, 105, 122, 97, 116, 105, 111, 110>> \* "Authorization"

\* The package-level header values, lines 24-29
hContentType ==
    << <<97, 112, 112, 108, 105, 99, 97, 116, 105, 111, 110, 47, 120, 45, 112, 114, 111,
         116, 111, 98, 117, 102>> >>                                  \* {"application/x-protobuf"}
hApiVersion == << <<48, 46, 54, 46, 48>> >>                           \* {"0.6.0"}
hCompressType == << <<108, 122, 52>> >>                               \* {"lz4"}
hSignatureMethod == << <<104, 109, 97, 99, 45, 115, 104, 97, 49>> >>  \* {"hmac-sha1"}

\* The slices that exist once the package is initialised and NewWriter has
\* returned: the four package variables and w.hHost = []string{uri.Host}
SharedAddrs ==
    {<<0, "hContentType">>, <<0, "hApiVersion">>, <<0, "hCompressType">>,
     <<0, "hSignatureMethod">>, <<0, "hHost">>}

SharedSlices(uri) ==
    [a \in SharedAddrs |->
        CASE a[2] = "hContentType" -> hContentType
          [] a[2] = "hApiVersion" -> hApiVersion
          [] a[2] = "hCompressType" -> hCompressType
          [] a[2] = "hSignatureMethod" -> hSignatureMethod
          [] OTHER -> << uri.Host >>]

\* NewWriter(uri, topic, source, accessKey, accessSecret, client); the client
\* is the transport, which the environment plays, and hHost is the address
\* of the slice NewWriter allocates.
NewWriter(uri, topic, source, accessKey, accessSecret) ==
    [method |-> sPOST,
     uri |-> uri,
     hHost |-> <<0, "hHost">>,
     topic |-> topic,
     source |-> source,
     appKey |-> accessKey,
     appSecret |-> accessSecret]

\* md5.Sum(data): a 16-byte digest of the body.  MD5 is a library primitive;
\* it is represented by a checksum that depends on every byte in its position.
md5Sum(data) == DigestBytes(16, 7, WSum(data), Len(data))

\* http.NewRequest parses w.uri.String() again and fails when that does not
\* parse: a host with a blank in it does not.
urlParses(uri) == \A i \in 1..Len(uri.Host) : uri.Host[i] # 32

\* http.Header seen through the slices: name -> values
Deref(header, sl) == [k \in DOMAIN header |-> sl[header[k]]]

\* The header map of lines 126-136: four values are the package's slices,
\* Host is the writer's, four are allocated by the call.
RequestHeader(c, wr) ==
    [k \in {sContentType, sContentLength, sContentMd5, sDate, sHost, sXLogApiversion,
            sXLogBodyrawsize, sXLogCompresstype, sXLogSignaturemethod} |->
        CASE k = sContentType -> <<0, "hContentType">>
          [] k = sContentLength -> <<c, "Content-Length">>
          [] k = sContentMd5 -> <<c, "Content-Md5">>
          [] k = sDate -> <<c, "Date">>
          [] k = sHost -> wr.hHost
          [] k = sXLogApiversion -> <<0, "hApiVersion">>
          [] k = sXLogBodyrawsize -> <<c, "X-Log-Bodyrawsize">>
          [] k = sXLogCompresstype -> <<0, "hCompressType">>
          [] OTHER -> <<0, "hSignatureMethod">>]

\* The slices the composite literal of lines 126-136 allocates; now is
\* gmtNow(), the clock's reading already formatted.
RequestSlices(c, raw, data, now) ==
    [a \in {<<c, "Content-Length">>, <<c, "Content-Md5">>, <<c, "Date">>,
            <<c, "X-Log-Bodyrawsize">>} |->
        CASE a[2] = "Content-Length" -> << Itoa(Len(data)) >>
          [] a[2] = "Content-Md5" -> << HexUpper(md5Sum(data)) >>
          [] a[2] = "Date" -> << now >>
          [] OTHER -> << Itoa(Len(raw)) >>]

\* Line 143 with the Authorization value kept in one slice of the writer,
\* overwritten by every call (as hHost is kept, but written per call)
WithSharedAuthorization(c, header, sl1, auth) ==
    [err |-> None,
     header |-> [k \in DOMAIN header \cup {sAuthorization} |->
                   IF k = sAuthorization THEN <<0, "hAuthorization">> ELSE header[k]],
     slices |-> [a \in {<<0, "hAuthorization">>} |-> << auth >>] @@ sl1]

\* Line 143: the Authorization value is allocated and stored in the map
WithAuthorization(c, header, sl1, auth) ==
    [err |-> None,
     header |-> [k \in DOMAIN header \cup {sAuthorization} |->
                   IF k = sAuthorization THEN <<c, "Authorization">> ELSE header[k]],
     slices |-> [a \in {<<c, "Authorization">>} |-> << auth >>] @@ sl1]

\* Lines 138-143: sign the request whose header is `header`, then add
\* "LOG <appKey>:<sign>"
SignRequest(c, wr, header, sl1, values, order) ==
    WithAuthorization(c, header, sl1,
        <<76, 79, 71, 32>> \o wr.appKey \o <<58>>
        \o signature(wr.appSecret,
                     [Method |-> wr.method, URL |-> wr.uri, Header |-> values],
                     order).digest)

WithValues(c, wr, header, sl1, order) ==
    SignRequest(c, wr, header, sl1, Deref(header, sl1), order)

\* w.buildRequest(raw, data) by call c, with the slices as they are when it
\* runs: the request's header, and the slices after it.
buildRequest(c, wr, sl, raw, data, now, order) ==
    IF ~urlParses(wr.uri)
    THEN [err |-> "BuildRequestError", header |-> << >>, slices |-> sl]
    ELSE WithValues(c, wr, RequestHeader(c, wr), RequestSlices(c, raw, data, now) @@ sl, order)

\* What the transport is handed by w.client.Do(req): the request with its
\* header values as they are at that moment
OnTheWire(wr, header, data, sl) ==
    [Method |-> wr.method, URL |-> wr.uri, Header |-> Deref(header, sl), Body |-> data]

(***************************************************************************)
(* Spec: one writer, NumCalls concurrent calls of WriteMessage.  A call    *)
(* moves through the stages of lines 59-80 and 147-155; between two        *)
(* stages the other calls may run.  What the libraries, the clock and the  *)
(* server answer is chosen when the stage runs and recorded in env.        *)
(***************************************************************************)

NumCalls == 2

Calls == 1..NumCalls

\* The constructor arguments: the tests' writer, and one whose host does
\* not parse
Configs ==
    { [uri |-> [Host |-> <<112, 46, 101, 120, 97, 109, 112, 108, 101, 46, 99, 111, 109>>,
                Path |-> <<47, 108, 111, 103, 115, 116, 111, 114, 101, 115, 47, 97>>,
                RawQuery |-> <<>>],
       topic |-> <<116, 101, 115, 116, 45, 116, 111, 112, 105, 99>>,
       source |-> <<49, 50, 55, 46, 48, 46, 48, 46, 49>>,
       accessKey |-> s123, accessSecret |-> <<51, 50, 49>>],
      [uri |-> [Host |-> <<98, 97, 100, 32, 104, 111, 115, 116>>,
                Path |-> <<47>>, RawQuery |-> <<>>],
       topic |-> <<>>, source |-> <<>>,
       accessKey |-> s123, accessSecret |-> <<51, 50, 49>>] }

\* The messages of a call: none, or the tests' short message and a second
\* message without a time
Batches ==
    { << >>,
      << [Time |-> [sec |-> <<0, 0, 24075, 57600>>, nsec |-> 0],
          Contents |-> [k \in {sKey} |-> sValue]],
         [Time |-> [sec |-> <<65535, 65521, 34926, 2304>>, nsec |-> 0],
          Contents |-> [k \in {sK} |-> <<>>]] >> }

\* gmtNow(): the clock's reading in RFC 1123 form
Clock ==
    { <<77, 111, 110, 44, 32, 48, 57, 32, 78, 111, 118, 32, 50, 48, 49, 53, 32, 48, 54,
        58, 48, 51, 58, 48, 51, 32, 71, 77, 84>> }     \* "Mon, 09 Nov 2015 06:03:03 GMT"

NoResp == [StatusCode |-> 0, Header |-> << >>, Body |-> JOther("empty")]

\* What w.client.Do may return: an error, or one of three responses
Transport ==
    {[err |-> TRUE, resp |-> NoResp]}
    \cup {[err |-> FALSE, resp |-> r] :
            r \in { [StatusCode |-> 200, Header |-> << >>, Body |-> JOther("empty")],
                    [StatusCode |-> 401,
                     Header |-> [k \in {sXLogRequestid} |-> << s123 >>],
                     Body |-> JObject([f \in {"errorCode", "errorMessage"} |->
                                IF f = "errorCode" THEN JString(sParameterInvalid)
                                ELSE JString(sPairInvalid)])],
                    [StatusCode |-> 500, Header |-> << >>, Body |-> JOther("text")] }}

\* The order of the composite literal of lines 126-136
HeaderNames ==
    <<sContentType, sContentLength, sContentMd5, sDate, sHost, sXLogApiversion,
      sXLogBodyrawsize, sXLogCompresstype, sXLogSignaturemethod>>

\* Orders in which signature's range loop may visit the nine headers: the
\* order of the literal and its reverse stand for the 9! orders (SpecSign
\* takes every order of smaller maps).
HeaderOrders ==
    {HeaderNames, [i \in 1..Len(HeaderNames) |-> HeaderNames[Len(HeaderNames) + 1 - i]]}

NoEnv ==
    [orders |-> << >>, marshalErr |-> FALSE,
     lz |-> [err |-> FALSE, n |-> 0, wrote |-> <<>>],
     now |-> <<>>,
     do |-> [err |-> FALSE, resp |-> NoResp]]

NoOutcome == Result("pending", NoError)

NoWire == [Method |-> <<>>, URL |-> << >>, Header |-> << >>, Body |-> <<>>]

PipeParked ==
    /\ cfg = None /\ w = None /\ slices = None /\ pc = None /\ msgs = None
    /\ wmRaw = None /\ wmData = None /\ wmHeader = None /\ wmResp = None /\ ret = None
    /\ ran = None /\ env = None /\ nDo = None /\ wmBody = None /\ sent = None

PipeInit ==
    /\ cfg \in Configs
    /\ w = NewWriter(cfg.uri, cfg.topic, cfg.source, cfg.accessKey, cfg.accessSecret)
    /\ slices = SharedSlices(cfg.uri)
    /\ pc = [c \in Calls |-> "idle"]
    /\ msgs = [c \in Calls |-> << >>]
    /\ wmRaw = [c \in Calls |-> <<>>]
    /\ wmData = [c \in Calls |-> <<>>]
    /\ wmHeader = [c \in Calls |-> << >>]
    /\ wmResp = [c \in Calls |-> NoResp]
    /\ ret = [c \in Calls |-> NoOutcome]
    /\ ran = [c \in Calls |-> <<>>]
    /\ env = [c \in Calls |-> NoEnv]
    /\ nDo = [c \in Calls |-> 0]
    /\ wmBody = [c \in Calls |-> <<>>]
    /\ sent = [c \in Calls |-> NoWire]

\* A stage ends the call with an error, or hands over to the next stage
\* (the `if err != nil { return err }` of lines 65-77).
Return(c, kind) ==
    /\ ret' = [ret EXCEPT ![c] = Result(kind, NoError)]
    /\ pc' = [pc EXCEPT ![c] = "done"]

Goto(c, stage) ==
    /\ pc' = [pc EXCEPT ![c] = stage]
    /\ UNCHANGED ret

\* WriteMessage without the early return of lines 60-62
WriteMessageUnguarded(c) ==
    /\ pc[c] = "idle"
    /\ \E messages \in Batches :
          /\ msgs' = [msgs EXCEPT ![c] = messages]
          /\ Goto(c, "encode")
    /\ UNCHANGED <<cfg, w, slices, wmRaw, wmData, wmHeader, wmResp, ran, env, nDo, wmBody, sent>>
    /\ UNCHANGED <<signVars, copyVars, encVars, valVars>>

\* WriteMessage(messages...) is called: lines 59-62
WriteMessage(c) ==
    /\ pc[c] = "idle"
    /\ \E messages \in Batches :
          /\ msgs' = [msgs EXCEPT ![c] = messages]
          /\ IF Len(messages) = 0
             THEN /\ ret' = [ret EXCEPT ![c] = Success]
                  /\ pc' = [pc EXCEPT ![c] = "done"]
             ELSE Goto(c, "encode")
    /\ UNCHANGED <<cfg, w, slices, wmRaw, wmData, wmHeader, wmResp, ran, env, nDo, wmBody, sent>>
    /\ UNCHANGED <<signVars, copyVars, encVars, valVars>>

\* raw, err := w.encode(messages...): lines 64-67
encodeStage(c) ==
    /\ pc[c] = "encode"
    /\ \E orders \in ContentOrders(msgs[c]), marshalErr \in BOOLEAN :
          LET r == encode(w, msgs[c], orders, marshalErr)
          IN  /\ env' = [env EXCEPT ![c].orders = orders, ![c].marshalErr = marshalErr]
              /\ wmRaw' = [wmRaw EXCEPT ![c] = r.raw]
              /\ IF r.err # None THEN Return(c, r.err) ELSE Goto(c, "compress")
    /\ ran' = [ran EXCEPT ![c] = Append(@, "encode")]
    /\ UNCHANGED <<cfg, w, slices, msgs, wmData, wmHeader, wmResp, nDo, wmBody, sent>>
    /\ UNCHANGED <<signVars, copyVars, encVars, valVars>>

\* data, err := w.compress(raw): lines 69-72
compressStage(c) ==
    /\ pc[c] = "compress"
    /\ \E lz \in Lz4Outcomes(wmRaw[c], CompressBlockBound(Len(wmRaw[c]))) :
          LET r == compress(wmRaw[c], lz)
          IN  /\ env' = [env EXCEPT ![c].lz = lz]
              /\ wmData' = [wmData EXCEPT ![c] = r.out]
              /\ IF r.err # None THEN Return(c, r.err) ELSE Goto(c, "build")
    /\ ran' = [ran EXCEPT ![c] = Append(@, "compress")]
    /\ UNCHANGED <<cfg, w, slices, msgs, wmRaw, wmHeader, wmResp, nDo, wmBody, sent>>
    /\ UNCHANGED <<signVars, copyVars, encVars, valVars>>

\* req, err := w.buildRequest(raw, data): lines 74-77
buildRequestStage(c) ==
    /\ pc[c] = "build"
    /\ \E now \in Clock, order \in HeaderOrders :
          LET r == buildRequest(c, w, slices, wmRaw[c], wmData[c], now, order)
          IN  /\ env' = [env EXCEPT ![c].now = now]
              /\ wmHeader' = [wmHeader EXCEPT ![c] = r.header]
              /\ slices' = r.slices
              /\ IF r.err # None THEN Return(c, r.err) ELSE Goto(c, "send")
    /\ ran' = [ran EXCEPT ![c] = Append(@, "build")]
    /\ UNCHANGED <<cfg, w, msgs, wmRaw, wmData, wmResp, nDo, wmBody, sent>>
    /\ UNCHANGED <<signVars, copyVars, encVars, valVars>>

\* fire sending again after a first transport error
fireDoRetrying(c) ==
    /\ pc[c] = "send"
    /\ \E do \in Transport :
          /\ env' = [env EXCEPT ![c].do = do]
          /\ wmResp' = [wmResp EXCEPT ![c] = do.resp]
          /\ IF do.err
             THEN (IF nDo[c] = 0 THEN Goto(c, "send") ELSE Return(c, "TransportError"))
             ELSE Goto(c, "validate")
    /\ sent' = [sent EXCEPT ![c] = OnTheWire(w, wmHeader[c], wmData[c], slices)]
    /\ nDo' = [nDo EXCEPT ![c] = @ + 1]
    /\ ran' = [ran EXCEPT ![c] = Append(@, "send")]
    /\ UNCHANGED <<cfg, w, slices, msgs, wmRaw, wmData, wmHeader, wmBody>>
    /\ UNCHANGED <<signVars, copyVars, encVars, valVars>>

\* fire, lines 148-151: resp, err := w.client.Do(req)
fireDo(c) ==
    /\ pc[c] = "send"
    /\ \E do \in Transport :
          /\ env' = [env EXCEPT ![c].do = do]
          /\ wmResp' = [wmResp EXCEPT ![c] = do.resp]
          /\ IF do.err THEN Return(c, "TransportError") ELSE Goto(c, "validate")
    /\ sent' = [sent EXCEPT ![c] = OnTheWire(w, wmHeader[c], wmData[c], slices)]
    /\ nDo' = [nDo EXCEPT ![c] = @ + 1]
    /\ ran' = [ran EXCEPT ![c] = Append(@, "send")]
    /\ UNCHANGED <<cfg, w, slices, msgs, wmRaw, wmData, wmHeader, wmBody>>
    /\ UNCHANGED <<signVars, copyVars, encVars, valVars>>

\* fire, line 154: w.validateResponse(resp); its result is what fire returns
\* once the deferred call has run
fireValidate(c) ==
    /\ pc[c] = "validate"
    /\ LET v == validateResponse(wmResp[c])
       IN  /\ ret' = [ret EXCEPT ![c] = v.ret]
           /\ wmBody' = [wmBody EXCEPT ![c] = IF v.read THEN Append(@, "read") ELSE @]
    /\ pc' = [pc EXCEPT ![c] = "deferred"]
    /\ ran' = [ran EXCEPT ![c] = Append(@, "validate")]
    /\ UNCHANGED <<cfg, w, slices, msgs, wmRaw, wmData, wmHeader, wmResp, env, nDo, sent>>
    /\ UNCHANGED <<signVars, copyVars, encVars, valVars>>

\* fire without the defer of line 152
fireWithoutClose(c) ==
    /\ pc[c] = "deferred"
    /\ pc' = [pc EXCEPT ![c] = "done"]
    /\ UNCHANGED <<cfg, w, slices, msgs, wmRaw, wmData, wmHeader, wmResp, ret, ran, env, nDo,
                   wmBody, sent>>
    /\ UNCHANGED <<signVars, copyVars, encVars, valVars>>

\* fire, line 152: the deferred resp.Body.Close() runs, and fire and
\* WriteMessage return
fireDeferred(c) ==
    /\ pc[c] = "deferred"
    /\ wmBody' = [wmBody EXCEPT ![c] = Append(@, "close")]
    /\ pc' = [pc EXCEPT ![c] = "done"]
    /\ UNCHANGED <<cfg, w, slices, msgs, wmRaw, wmData, wmHeader, wmResp, ret, ran, env, nDo, sent>>
    /\ UNCHANGED <<signVars, copyVars, encVars, valVars>>

Next ==
    \E c \in Calls :
        \/ WriteMessage(c)
        \/ encodeStage(c)
        \/ compressStage(c)
        \/ buildRequestStage(c)
        \/ fireDo(c)
        \/ fireValidate(c)
        \/ fireDeferred(c)

\* WriteMessage(messages...) run from start to end by call c alone on a
\* writer wr with slices sl, the libraries, the clock and the server
\* answering as in e: what it returns and what it hands the transport.
WriteMessageAlone(c, wr, sl, messages, e) ==
    IF Len(messages) = 0 THEN [ret |-> Success, sent |-> NoWire]
    ELSE LET en == encode(wr, messages, e.orders, e.marshalErr)
         IN  IF en.err # None THEN [ret |-> Result(en.err, NoError), sent |-> NoWire]
             ELSE LET co == compress(en.raw, e.lz)
                  IN  IF co.err # None THEN [ret |-> Result(co.err, NoError), sent |-> NoWire]
                      ELSE LET br == buildRequest(c, wr, sl, en.raw, co.out, e.now, HeaderNames)
                           IN  IF br.err # None
                               THEN [ret |-> Result(br.err, NoError), sent |-> NoWire]
                               ELSE [ret |-> IF e.do.err THEN Result("TransportError", NoError)
                                             ELSE validateResponse(e.do.resp).ret,
                                     sent |-> OnTheWire(wr, br.header, co.out, br.slices)]

(***************************************************************************)
(* Specifications.  Each one runs one part of the program; the variables   *)
(* of the other parts stay parked.                                         *)
(***************************************************************************)

SignSpecInit == SignInit /\ CopyParked /\ EncodeParked /\ ValidateParked /\ PipeParked
SpecSign == SignSpecInit /\ [][SignNext]_vars

CopySpecInit == CopyInit /\ SignParked /\ EncodeParked /\ ValidateParked /\ PipeParked
SpecCopy == CopySpecInit /\ [][CopyNext]_vars

EncodeSpecInit == EncodeInit /\ SignParked /\ CopyParked /\ ValidateParked /\ PipeParked
SpecEncode == EncodeSpecInit /\ [][EncodeNext]_vars

ValidateSpecInit == ValidateInit /\ SignParked /\ CopyParked /\ EncodeParked /\ PipeParked
SpecValidate == ValidateSpecInit /\ [][ValidateNext]_vars

Init == PipeInit /\ SignParked /\ CopyParked /\ EncodeParked /\ ValidateParked
Spec == Init /\ [][Next]_vars

(***************************************************************************)
(* Properties of WriteMessage (specification Spec)                         *)
(***************************************************************************)

\* The stages of one call, in the order of lines 64-79 and 148-154
StageOrder == <<"encode", "compress", "build", "send", "validate">>

IsPrefix(s, t) == Len(s) <= Len(t) /\ s = SubSeq(t, 1, Len(s))

Has(s, x) == \E i \in 1..Len(s) : s[i] = x

\* The number of stages a call with a given outcome has run
StagesRun(kind) ==
    CASE kind = "EncodeError" -> 1
      [] kind = "CompressError" -> 2
      [] kind = "BuildRequestError" -> 3
      [] kind = "TransportError" -> 4
      [] kind \in {"Success", "VendorError", "ResponseDecodeError"} -> 5
      [] OTHER -> 0 - 1

\* C1: the stages of a call run in the order encode, compress, build, send,
\* validate, each only after the earlier ones succeeded; a call with at least
\* one message ends in exactly one of the seven outcomes, having run the
\* stages up to the one that failed and none after it; the transport is
\* invoked at most once per call.
C1_StagesInOrder ==
    \A c \in Calls :
        /\ IsPrefix(ran[c], StageOrder)
        /\ nDo[c] <= 1
        /\ nDo[c] = (IF Has(ran[c], "send") THEN 1 ELSE 0)
        /\ pc[c] \notin {"done", "deferred"} => ret[c].kind = "pending"
        /\ pc[c] = "done" /\ msgs[c] # << >> =>
              /\ ret[c].kind \in {"Success", "EncodeError", "CompressError", "BuildRequestError",
                                  "TransportError", "VendorError", "ResponseDecodeError"}
              /\ Len(ran[c]) = StagesRun(ret[c].kind)

\* C1's case: one call ended in a vendor error after all five stages while
\* another ended at an earlier stage
C1_Witness ==
    \E c, d \in Calls :
        /\ pc[c] = "done" /\ ret[c].kind = "VendorError" /\ ran[c] = StageOrder
        /\ pc[d] = "done" /\ ret[d].kind = "TransportError" /\ Len(ran[d]) = 4

\* C3: a call with zero messages returns no error and runs no stage: nothing
\* is encoded, compressed, built or sent, whatever the writer's configuration.
C3_EmptyBatchDoesNothing ==
    \A c \in Calls :
        pc[c] # "idle" /\ msgs[c] = << >> =>
            /\ pc[c] = "done"
            /\ ret[c] = Success
            /\ ran[c] = <<>>
            /\ nDo[c] = 0
            /\ sent[c] = NoWire
            /\ wmRaw[c] = <<>> /\ wmData[c] = <<>> /\ wmHeader[c] = << >>
            /\ \A a \in DOMAIN slices : a[1] # c

\* C3's case: a call with no message has returned, on a writer whose
\* endpoint does not even parse, while another call got as far as building
C3_Witness ==
    \E c, d \in Calls :
        /\ pc[c] = "done" /\ msgs[c] = << >>
        /\ ~urlParses(cfg.uri)
        /\ ret[d].kind = "BuildRequestError"

\* The header values of call c's request that are slices of call c
OwnValues(c) == {k \in DOMAIN wmHeader[c] : wmHeader[c][k][1] = c}

\* The result and the request of call c are those of the same call run alone
\* on a fresh writer of the same configuration
SameAsAlone(c) ==
    [ret |-> ret[c], sent |-> sent[c]]
        = WriteMessageAlone(c,
              NewWriter(cfg.uri, cfg.topic, cfg.source, cfg.accessKey, cfg.accessSecret),
              SharedSlices(cfg.uri), msgs[c], env[c])

\* The configuration is as NewWriter left it and the slices shared by all
\* calls hold what they held then
ConfigurationUnchanged ==
    /\ w = NewWriter(cfg.uri, cfg.topic, cfg.source, cfg.accessKey, cfg.accessSecret)
    /\ \A a \in SharedAddrs : a \in DOMAIN slices /\ slices[a] = SharedSlices(cfg.uri)[a]

\* C4 as stated: the configuration never changes, every header value of a
\* call's request is a slice allocated by that call, and a call's outcome is
\* the one it has when run alone.
C4_AsStated ==
    /\ ConfigurationUnchanged
    /\ \A c \in Calls :
          /\ OwnValues(c) = DOMAIN wmHeader[c]
          /\ pc[c] = "done" => SameAsAlone(c)

\* C4 (amended): the configuration never changes; the header values Content-
\* Type, Host, X-Log-Apiversion, X-Log-Compresstype and X-Log-Signaturemethod
\* of every request are the slices shared by all calls, which no call
\* writes; the other header values are slices allocated by the call; and a
\* call's outcome and the request it sent are those it has when run alone.
C4_SharedValuesReadOnly ==
    /\ ConfigurationUnchanged
    /\ \A a \in DOMAIN slices : a \in SharedAddrs \/ a[1] \in Calls
    /\ \A c \in Calls :
          /\ \A k \in DOMAIN wmHeader[c] :
                IF k \in {sContentType, sHost, sXLogApiversion, sXLogCompresstype,
                          sXLogSignaturemethod}
                THEN wmHeader[c][k] \in SharedAddrs
                ELSE wmHeader[c][k][1] = c
          /\ pc[c] = "done" => SameAsAlone(c)

\* C4's case: two calls that built different requests from the same shared
\* header values have both been answered
C4_Witness ==
    \E c, d \in Calls :
        /\ c # d
        /\ pc[c] = "done" /\ pc[d] = "done"
        /\ nDo[c] = 1 /\ nDo[d] = 1
        /\ sent[c].Body # sent[d].Body
        /\ wmHeader[c][sHost] = wmHeader[d][sHost]
        /\ ret[c].kind = "VendorError" /\ ret[d].kind = "Success"

\* C10: when the transport returned a response, its body is closed exactly
\* once, after validation (which reads it when the status is 400 or above)
\* and before the call returns, whichever way validation ends; when the
\* transport returned an error, no body is closed and validation does not run.
C10_BodyClosedOnce ==
    \A c \in Calls :
        /\ Has(wmBody[c], "close") => Has(ran[c], "validate")
        /\ pc[c] = "done" /\ nDo[c] = 1 /\ ret[c].kind # "TransportError" =>
              /\ Has(ran[c], "validate")
              /\ wmBody[c] = (IF ret[c].kind = "Success" THEN <<>> ELSE <<"read">>) \o <<"close">>
        /\ pc[c] # "done" => ~Has(wmBody[c], "close")
        /\ ret[c].kind = "TransportError" => wmBody[c] = <<>> /\ ~Has(ran[c], "validate")
        /\ ~Has(ran[c], "send") => wmBody[c] = <<>>

\* C10's case: one call returned a decode error with the body read and
\* closed, another returned the transport's error
C10_Witness ==
    \E c, d \in Calls :
        /\ pc[c] = "done" /\ ret[c].kind = "ResponseDecodeError"
        /\ wmBody[c] = <<"read", "close">>
        /\ pc[d] = "done" /\ ret[d].kind = "TransportError"

(***************************************************************************)
(* Properties of validateResponse (specification SpecValidate)             *)
(***************************************************************************)

\* The body holds a JSON value that decodes into an AliyunError
Decodes(body) ==
    \/ body.kind = "null"
    \/ /\ body.kind = "object"
       /\ \A f \in {"errorCode", "errorMessage"} \cap DOMAIN body.members :
             body.members[f].t = "string"

\* Member f of a JSON object body, "" when it has none
Member(body, f) ==
    IF body.kind = "object" /\ f \in DOMAIN body.members THEN body.members[f].s ELSE <<>>

\* C2: a response with a status below 400 is no error whatever its body; a
\* status of 400 or above with a body that decodes is a vendor error holding
\* the status, the X-Log-Requestid header and the body's errorCode and
\* errorMessage; a status of 400 or above with a body that does not decode is
\* the decode error, without a vendor error.
C2_ClassifiedByStatus ==
    vaPc = "returned" =>
        IF vaResp.StatusCode < 400
        THEN vaRet.ret = Success /\ ~vaRet.read
        ELSE IF Decodes(vaResp.Body)
        THEN /\ vaRet.ret.kind = "VendorError"
             /\ vaRet.ret.aErr.HTTPCode = vaResp.StatusCode
             /\ vaRet.ret.aErr.RequestID =
                   (IF sXLogRequestid \in DOMAIN vaResp.Header
                    THEN vaResp.Header[sXLogRequestid][1] ELSE <<>>)
             /\ vaRet.ret.aErr.Code = Member(vaResp.Body, "errorCode")
             /\ vaRet.ret.aErr.Message = Member(vaResp.Body, "errorMessage")
        ELSE /\ vaRet.ret.kind = "ResponseDecodeError"
             /\ vaRet.ret.aErr = NoError

\* C2's case: status 400 with the tests' JSON body and a request id
C2_Witness ==
    /\ vaPc = "returned"
    /\ vaResp.StatusCode = 400
    /\ vaRet.ret.kind = "VendorError"
    /\ vaRet.ret.aErr.RequestID = s123
    /\ vaRet.ret.aErr.Code = sParameterInvalid
    /\ vaRet.ret.aErr.Message = sPairInvalid

(***************************************************************************)
(* Properties of signature (specification SpecSign)                        *)
(***************************************************************************)

\* C5: two calls of signature on the same request, each ranging over the
\* header map in an order of its own, build the same canonical string and
\* the same signature.
C5_OrderIndependent ==
    sgPc[1] = "returned" /\ sgPc[2] = "returned" =>
        /\ sgOut[1].signStr = sgOut[2].signStr
        /\ sgOut[1].digest = sgOut[2].digest

\* C5's case: both calls returned on a request with two vendor headers
\* that each give a line, so that the orders of the range loop differ in
\* what they append
C5_Witness ==
    /\ sgPc[1] = "returned" /\ sgPc[2] = "returned"
    /\ Len(sgOut[1].arr) >= 7
    /\ sgOut[1].arr[5] # sgOut[1].arr[6]

sxlog == <<120, 45, 108, 111, 103, 45>>                              \* "x-log-"
sxacs == <<120, 45, 97, 99, 115, 45>>                                \* "x-acs-"

\* The headers with a value whose name starts, case-insensitively, with a
\* vendor prefix
VendorHeaders(h) ==
    {k \in DOMAIN h :
        /\ Len(h[k]) > 0
        /\ (HasPrefix(ToLower(k), sxlog) \/ HasPrefix(ToLower(k), sxacs))}

Pairs(contents) == {<<contents[j].Key, contents[j].Value>> : j \in 1..Len(contents)}

\* C7: encode yields a group with the writer's topic and source and one log
\* per message in the same order; log i's time is message i's time in whole
\* unix seconds, and its contents are message i's key/value pairs, each once.
C7_LogPerMessage ==
    enPc = "returned" =>
        LET g == enRet.group
        IN  /\ g.Topic = enW.topic
            /\ g.Source = enW.source
            /\ Len(g.Logs) = Len(enMsgs)
            /\ \A i \in 1..Len(enMsgs) :
                  /\ <<0, 0>> \o g.Logs[i].Time = enMsgs[i].Time.sec
                  /\ Len(g.Logs[i].Contents) = Cardinality(DOMAIN enMsgs[i].Contents)
                  /\ Pairs(g.Logs[i].Contents)
                        = {<<k, enMsgs[i].Contents[k]>> : k \in DOMAIN enMsgs[i].Contents}

(***************************************************************************)
(* Properties of compress and copyIncompressible (specification SpecCopy)  *)
(***************************************************************************)

\* The length bytes that follow the descriptor byte of a literal run of L bytes
LengthBytes(L) == IF L < 15 THEN 0 ELSE (L - 15) \div 255 + 1

\* C8: compress returns at most L + L/255 + 16 bytes for an input of L
\* bytes; when the block compressor reported zero bytes, the fallback wrote
\* its whole block (descriptor, length bytes, L literals) without reaching a
\* destination-exhausted guard, and compress returns no error.
C8_WithinBound ==
    cpPc = "compressed" =>
        /\ Len(cpRet.out) <= Len(cpData) + (Len(cpData) \div 255) + 16
        /\ cpRet.fallback =>
              /\ ~cpRet.exhausted
              /\ cpRet.err = None
              /\ Len(cpRet.out) = 1 + LengthBytes(Len(cpData)) + Len(cpData)

\* C8's case: the fallback ran on an input that needs three length bytes
C8_Witness ==
    /\ cpPc = "compressed"
    /\ cpRet.fallback
    /\ Len(cpData) = 15 + 2 * 255
    /\ Len(cpRet.out) = 4 + Len(cpData)

\* The literals of an LZ4 block that is one literal run: the high nibble of
\* the token is the length, 15 meaning that length bytes follow, each added
\* to the length, the last being the first below 255.  <<-1>> when the block
\* is not of that form.
RECURSIVE ReadLength(_, _, _)
ReadLength(b, i, sum) ==
    IF i > Len(b) THEN [len |-> 0 - 1, next |-> i]
    ELSE IF b[i] = 255 THEN ReadLength(b, i + 1, sum + 255)
    ELSE [len |-> sum + b[i], next |-> i + 1]

DecodeLiteralBlock(b) ==
    IF b = <<>> \/ b[1] % 16 # 0 THEN <<0 - 1>>
    ELSE LET l == IF b[1] \div 16 < 15 THEN [len |-> b[1] \div 16, next |-> 2]
                  ELSE ReadLength(b, 2, 15)
         IN  IF l.len < 0 \/ l.next + l.len - 1 # Len(b) THEN <<0 - 1>>
             ELSE SubSeq(b, l.next, Len(b))

\* The block copyIncompressible writes for src, as the format describes it
IsLiteralBlock(b, src) ==
    LET L == Len(src)
        nl == LengthBytes(L)
    IN  /\ Len(b) = 1 + nl + L
        /\ b[1] = (IF L < 15 THEN 16 * L ELSE 240)
        /\ \A i \in 1..(nl - 1) : b[1 + i] = 255
        /\ nl > 0 => b[1 + nl] = (L - 15) % 255 /\ b[1 + nl] < 255
        /\ \A i \in 1..L : b[1 + nl + i] = src[i]

\* C9: on a destination of at least the worst-case size copyIncompressible
\* writes one literal-only block: descriptor byte, length bytes, the input
\* bytes unchanged and in order, nothing after them; it returns the number
\* of bytes written, and the block decodes back to the input.  The same
\* holds of what compress returns when it took the fallback.
C9_LiteralBlock ==
    /\ cpPc = "copied" /\ cpDn >= CompressBlockBound(Len(cpData)) =>
          /\ ~cpRet.exhausted
          /\ cpRet.n = 1 + LengthBytes(Len(cpData)) + Len(cpData)
          /\ IsLiteralBlock(SubSeq(cpRet.dst, 1, cpRet.n), cpData)
          /\ \A i \in (cpRet.n + 1)..Len(cpRet.dst) : cpRet.dst[i] = 0
          /\ DecodeLiteralBlock(SubSeq(cpRet.dst, 1, cpRet.n)) = cpData
    /\ cpPc = "compressed" /\ cpRet.fallback =>
          /\ IsLiteralBlock(cpRet.out, cpData)
          /\ DecodeLiteralBlock(cpRet.out) = cpData

\* C9's case: a direct call on 270 bytes, whose length is 0xF0, one 0xFF and
\* a terminal byte of 0
C9_Witness ==
    /\ cpPc = "copied"
    /\ cpDn = CompressBlockBound(Len(cpData))
    /\ Len(cpData) = 15 + 255
    /\ cpRet.dst[2] = 255 /\ cpRet.dst[3] = 0
    /\ cpRet.n = 273


=============================================================================
